---- MODULE Spec2Model ----
(***************************************************************************)
(* Model of apps/tts/train.py: the distributed trainer's control plane.    *)
(* One process per rank runs train(config); ranks meet only in the         *)
(* collectives (all_reduce, broadcast_object_list).  The checkpoint        *)
(* directory outlives a job, so a later job can resume from a file an      *)
(* earlier job wrote.  Losses are exact rationals <<num, den>>; the        *)
(* rounding of binary floating point is not modelled.                      *)
(***************************************************************************)
EXTENDS Integers, Sequences, FiniteSets, TLC

----------------------------------------------------------------------------
(* Bounds of the model.                                                    *)
WorldSize == 2
MaxEpochs == 3
MaxBatches == 4
MaxAccum == 2
MaxFreq == 2
MaxValBatches == 1
MaxLoss == 2
MaxRuns == 2

Ranks == 0 .. (WorldSize - 1)
LossVals == 1 .. MaxLoss

----------------------------------------------------------------------------
(* Exact arithmetic on the float values the trainer compares.              *)
RECURSIVE GCD(_, _)
GCD(a, b) == IF b = 0 THEN a ELSE GCD(b, a % b)

Rat(n, d) == LET g == GCD(n, d) IN IF g = 0 THEN <<n, d>> ELSE <<n \div g, d \div g>>
RatAdd(a, b) == Rat(a[1] * b[2] + b[1] * a[2], a[2] * b[2])
RatDivInt(a, k) == Rat(a[1], a[2] * k)
RatZero == <<0, 1>>

\* float("inf"), TrainerState.best_loss default
Inf == <<1, 0>>

\* avg_loss < self.state.best_loss
RatLessMut(a, b) == a[1] * b[2] <= b[1] * a[2]
RatLess(a, b) == a[1] * b[2] < b[1] * a[2]

\* dist.all_reduce(..., op=ReduceOp.SUM) over the values the ranks in S sent
RECURSIVE ReduceSum(_, _)
ReduceSum(f, S) ==
    IF S = {} THEN RatZero
    ELSE LET x == CHOOSE y \in S : TRUE IN RatAdd(f[x], ReduceSum(f, S \ {x}))

----------------------------------------------------------------------------
(* f"checkpoint_{epoch:04d}.pt" / "best.pt"                                *)
RECURSIVE Digits(_)
Digits(n) == IF n < 10 THEN <<n>> ELSE Append(Digits(n \div 10), n % 10)

RECURSIVE ZeroPad(_, _)
ZeroPad(s, w) == IF Len(s) >= w THEN s ELSE ZeroPad(<<0>> \o s, w)

Format04d(n) == ZeroPad(Digits(n), 4)

BestFile == [kind |-> "best", digits |-> <<>>]

FileName(epoch, best) ==
    IF best THEN BestFile ELSE [kind |-> "checkpoint", digits |-> Format04d(epoch)]

NoPath == [kind |-> "none", digits |-> <<>>]

----------------------------------------------------------------------------
VARIABLES
    config,       \* TrainingConfig of the job
    nTrain,       \* len(self.train_loader), the same on every rank
    nVal,         \* len(self.val_loader), the same on every rank
    valLoss,      \* validation loss of the replica after e completed epochs
    run,          \* number of the job (1 = the fresh job)
    pc,           \* position of each rank's process
    state,        \* self.state (TrainerState) of each rank
    scheduler,    \* OneCycleLR: last_epoch and total_steps
    optSteps,     \* optimizer.step() calls the replica has absorbed
    grads,        \* backward passes accumulated since the last zero_grad
    epoch,        \* loop variable of train()
    start_epoch,  \* train(): start_epoch
    batch_idx,    \* train_epoch: batch_idx
    total_loss,   \* train_epoch / validate: total_loss
    accum_steps,  \* train_epoch: accum_steps
    val_idx,      \* validate: batches consumed
    sendbuf,      \* value a rank contributes to the pending collective
    recvbuf,      \* result of the last collective on a rank
    store,        \* checkpoint directory: file name -> bundle
    disk,         \* "ok", or "full": a write to the directory raises
    err,          \* the exception a rank's process ended with, or "none"
    events,       \* history: collectives, steps and ticks of this train_epoch
    logged,       \* history: avg_loss of the last training log line
    writes,       \* history: every write to the checkpoint directory
    trace,        \* history: calls train() made on a rank, this job
    epochsRun,    \* history: train_epoch calls completed on a rank, this job
    loaded,       \* history: TrainerState right after load_checkpoint returned
    hist          \* history: TrainerState at the end of each iteration, job 1

cfgVars == <<config, nTrain, nVal, valLoss, run, disk>>
rankVars == <<pc, state, scheduler, optSteps, grads, epoch, start_epoch>>
loopVars == <<batch_idx, total_loss, accum_steps, val_idx>>
collVars == <<sendbuf, recvbuf>>
histVars == <<writes, trace, epochsRun, loaded, hist, err, events, logged>>
vars == <<cfgVars, rankVars, loopVars, collVars, store, histVars>>

----------------------------------------------------------------------------
\* TrainerState()
InitialTrainerState == [epoch |-> 0, global_step |-> 0, best_loss |-> Inf]

NoState == [epoch |-> -1, global_step |-> -1, best_loss |-> Inf]

\* self.is_main = dist.get_rank() == 0
IsMainMut(r) == TRUE
IsMain(r) == r = 0

\* Python's a % b and a // b for b # 0: the result takes the sign of b
PyMod(a, b) == IF b > 0 THEN a % b ELSE 0 - ((0 - a) % (0 - b))
PyFloorDiv(a, b) == IF b > 0 THEN a \div b ELSE (0 - a) \div (0 - b)

\* (epoch + 1) % freq == 0, for freq # 0
CadenceMut(e, freq) == PyMod(e, freq) = 0
Cadence(e, freq) == PyMod(e + 1, freq) = 0

\* (batch_idx + 1) % self.config.grad_accum_steps == 0, for a step # 0
AtWindowBoundaryMut(idx, w) == PyMod(idx, w) = 0
AtWindowBoundary(idx, w) == PyMod(idx + 1, w) = 0

\* total_steps = epochs * (len(train_loader) // grad_accum_steps)
TotalSteps(cfg, n) == cfg.epochs * PyFloorDiv(n, cfg.grad_accum_steps)

\* _create_optimizer: the optimizer, or the NotImplementedError instance the
\* method returns for any other kind
CreateOptimizer(cfg) ==
    IF cfg.optimizer = "AdamW" THEN "AdamW" ELSE "NotImplementedError"

\* _create_scheduler: the schedule, or the NotImplementedError instance
CreateScheduler(cfg) ==
    IF cfg.lr_scheduler = "OneCycleLR" THEN "OneCycleLR" ELSE "NotImplementedError"

\* The exception __init__ raises while it builds optimizer and schedule:
\* the floor division by grad_accum_steps, then OneCycleLR's own checks of
\* its optimizer and of total_steps.
CreateError(cfg, n) ==
    IF CreateScheduler(cfg) # "OneCycleLR" THEN "none"
    ELSE IF cfg.grad_accum_steps = 0 THEN "ZeroDivisionError"
    ELSE IF CreateOptimizer(cfg) # "AdamW" THEN "TypeError"
    ELSE IF TotalSteps(cfg, n) <= 0 THEN "ValueError"
    ELSE "none"

\* loss.item() of one training micro-batch on rank r
TrainLossOf(r) == r + 1

\* loss.item() of one validation batch on rank r
ValLossOf(r) == valLoss[state[r].epoch] + r

\* self.state.global_step += 1
StepCounterMut(r, st) == IF r = 0 THEN [st EXCEPT !.global_step = @ + 1] ELSE st
StepCounter(r, st) == [st EXCEPT !.global_step = @ + 1]

\* self.state.epoch += 1
EpochCounterMut(st) == st
EpochCounter(st) == [st EXCEPT !.epoch = @ + 1]

\* The keys of the dict CheckpointState.save hands to torch.save
BundleKeys ==
    {"model_state", "optimizer_state", "scheduler_state", "trainer_state", "config"}

\* CheckpointState(...) built by save_checkpoint
BundleOf(r, st) ==
    [ keys |-> BundleKeys,
      model_state |-> optSteps[r],
      optimizer_state |-> optSteps[r],
      scheduler_state |-> scheduler[r],
      trainer_state |-> st,
      config |-> config ]

\* What a write that failed half way leaves at its path
Truncated ==
    [ keys |-> {}, model_state |-> 0, optimizer_state |-> 0,
      scheduler_state |-> [last_epoch |-> 0, total_steps |-> 0],
      trainer_state |-> InitialTrainerState, config |-> config ]

\* The exception save_checkpoint raises on rank r, or "none": state_dict()
\* of a placeholder while the bundle is built, then torch.save itself.
SaveError(r) ==
    IF ~IsMain(r) THEN "none"
    ELSE IF CreateOptimizer(config) # "AdamW" THEN "AttributeError"
    ELSE IF CreateScheduler(config) # "OneCycleLR" THEN "AttributeError"
    ELSE IF disk = "full" THEN "OSError"
    ELSE "none"

\* save_checkpoint: the directories the call can leave.  torch.save that
\* raises has either not touched the file or left a truncated one.
StoreAfterSave(r, st, best) ==
    IF ~IsMain(r) \/ SaveError(r) = "AttributeError" THEN {store}
    ELSE IF SaveError(r) = "OSError"
    THEN {store, (FileName(st.epoch, best) :> Truncated) @@ store}
    ELSE {(FileName(st.epoch, best) :> BundleOf(r, st)) @@ store}

WritesAfterSave(r, st, best) ==
    IF ~IsMain(r) \/ SaveError(r) # "none" THEN writes
    ELSE Append(writes, [ rank |-> r, run |-> run, best |-> best,
                          completed |-> start_epoch[r] + epochsRun[r],
                          name |-> FileName(st.epoch, best),
                          bundle |-> BundleOf(r, st) ])

----------------------------------------------------------------------------
\* The configs of the model: every small one, and the one of the cadence
\* scenario (checkpoint_freq = 2, epochs = 5).
SmallConfigs ==
    [ epochs : 0 .. MaxEpochs,
      grad_accum_steps : 1 .. MaxAccum,
      optimizer : {"AdamW"},
      lr_scheduler : {"OneCycleLR"},
      validation_freq : 1 .. MaxFreq,
      checkpoint_freq : 1 .. MaxFreq,
      resume_checkpoint : {NoPath} ]

ScenarioConfig ==
    [ epochs |-> 5, grad_accum_steps |-> 1, optimizer |-> "AdamW",
      lr_scheduler |-> "OneCycleLR", validation_freq |-> 2,
      checkpoint_freq |-> 2, resume_checkpoint |-> NoPath ]

\* The epochs after which train() calls validate()
ValidationEpochs(cfg) ==
    {e \in 1 .. cfg.epochs :
        cfg.validation_freq # 0 /\ PyMod(e, cfg.validation_freq) = 0}

\* The state before the first job starts, with a config of cfgs
InitJob(cfgs) ==
    /\ config \in cfgs
    /\ disk = "ok"
    /\ err = [r \in Ranks |-> "none"]
    /\ events = [r \in Ranks |-> <<>>]
    /\ logged = [r \in Ranks |-> RatZero]
    /\ nTrain \in 0 .. MaxBatches
    /\ nVal \in 0 .. MaxValBatches
    /\ valLoss \in [ValidationEpochs(config) -> LossVals]
    /\ run = 1
    /\ pc = [r \in Ranks |-> "init"]
    /\ state = [r \in Ranks |-> InitialTrainerState]
    /\ scheduler = [r \in Ranks |-> [last_epoch |-> 0, total_steps |-> 0]]
    /\ optSteps = [r \in Ranks |-> 0]
    /\ grads = [r \in Ranks |-> 0]
    /\ epoch = [r \in Ranks |-> 0]
    /\ start_epoch = [r \in Ranks |-> 0]
    /\ batch_idx = [r \in Ranks |-> 0]
    /\ total_loss = [r \in Ranks |-> RatZero]
    /\ accum_steps = [r \in Ranks |-> 0]
    /\ val_idx = [r \in Ranks |-> 0]
    /\ sendbuf = [r \in Ranks |-> RatZero]
    /\ recvbuf = [r \in Ranks |-> RatZero]
    /\ writes = <<>>
    /\ trace = [r \in Ranks |-> <<>>]
    /\ epochsRun = [r \in Ranks |-> 0]
    /\ loaded = [r \in Ranks |-> NoState]
    /\ hist = [r \in Ranks |-> <<>>]

Init == InitJob(SmallConfigs \cup {ScenarioConfig}) /\ store = <<>>

----------------------------------------------------------------------------
\* An exception leaves train() on rank r
Raise(r, e) ==
    /\ pc' = [pc EXCEPT ![r] = "failed"]
    /\ err' = [err EXCEPT ![r] = e]

(* DistributedTTSTrainer.__init__ up to the broadcast of load_checkpoint.  *)
(* b is the bundle torch.load returns on this rank, NoBundle when there is *)
(* no file at the path.                                                    *)
NoBundle ==
    [ keys |-> {}, model_state |-> 0, optimizer_state |-> 0,
      scheduler_state |-> [last_epoch |-> 0, total_steps |-> 0],
      trainer_state |-> NoState, config |-> config ]

\* torch.load(self.config.resume_checkpoint) against the shared directory
ReadShared ==
    IF config.resume_checkpoint \in DOMAIN store
    THEN store[config.resume_checkpoint] ELSE NoBundle

\* CheckpointState.load: the keys read with checkpoint[...]; scheduler_state
\* is read with checkpoint.get(...)
RequiredKeysMut == {"model_state", "optimizer_state", "config"}
RequiredKeys == {"model_state", "optimizer_state", "trainer_state", "config"}

\* The exception load_checkpoint raises, or "none": torch.load, the key
\* lookups, then load_state_dict on a placeholder optimizer or schedule.
LoadError(cfg, b) ==
    IF b = NoBundle THEN "FileNotFoundError"
    ELSE IF b.keys = {} THEN "UnpicklingError"
    ELSE IF ~(RequiredKeys \subseteq b.keys) THEN "KeyError"
    ELSE IF CreateOptimizer(cfg) # "AdamW" THEN "AttributeError"
    ELSE IF CreateScheduler(cfg) # "OneCycleLR" /\ "scheduler_state" \in b.keys
    THEN "AttributeError"
    ELSE "none"

\* load_checkpoint: self.state = checkpoint.trainer_state
LoadedState(b) == IF "trainer_state" \in b.keys THEN b.trainer_state ELSE NoState

\* self.scheduler as _create_scheduler leaves it
CreatedScheduler(cfg, n) ==
    IF CreateScheduler(cfg) = "OneCycleLR"
    THEN [last_epoch |-> 0, total_steps |-> TotalSteps(cfg, n)]
    ELSE [last_epoch |-> 0, total_steps |-> 0]

\* load_checkpoint: `if self.scheduler and checkpoint.scheduler_state:`
LoadedScheduler(cfg, n, b) ==
    IF "scheduler_state" \in b.keys THEN b.scheduler_state
    ELSE CreatedScheduler(cfg, n)

Construct(r, b) ==
    /\ pc[r] = "init"
    /\ IF CreateError(config, nTrain) # "none"
       THEN \* _create_scheduler raises
            /\ Raise(r, CreateError(config, nTrain))
            /\ UNCHANGED <<state, scheduler, optSteps, sendbuf>>
       ELSE IF config.resume_checkpoint = NoPath
       THEN /\ pc' = [pc EXCEPT ![r] = "loop"]
            /\ state' = [state EXCEPT ![r] = InitialTrainerState]
            /\ scheduler' = [scheduler EXCEPT ![r] = CreatedScheduler(config, nTrain)]
            /\ UNCHANGED <<optSteps, sendbuf, err>>
       ELSE IF LoadError(config, b) # "none"
       THEN \* load_checkpoint raises before self.state is assigned
            /\ Raise(r, LoadError(config, b))
            /\ state' = [state EXCEPT ![r] = InitialTrainerState]
            /\ scheduler' = [scheduler EXCEPT ![r] = CreatedScheduler(config, nTrain)]
            /\ optSteps' = [optSteps EXCEPT ![r] =
                   IF LoadError(config, b) = "AttributeError" THEN b.model_state ELSE @]
            /\ UNCHANGED sendbuf
       ELSE /\ pc' = [pc EXCEPT ![r] = "bcast"]
            /\ state' = [state EXCEPT ![r] = LoadedState(b)]
            /\ scheduler' = [scheduler EXCEPT ![r] = LoadedScheduler(config, nTrain, b)]
            /\ optSteps' = [optSteps EXCEPT ![r] = b.model_state]
            /\ sendbuf' = [sendbuf EXCEPT ![r] =
                   <<LoadedState(b).epoch, LoadedState(b).global_step>>]
            /\ UNCHANGED err
    /\ UNCHANGED <<cfgVars, grads, epoch, start_epoch, loopVars, recvbuf, store,
                   writes, trace, epochsRun, loaded, hist, events, logged>>

\* What load_checkpoint keeps of the list broadcast_object_list filled in
AfterBroadcast(st, got) == st

(* dist.broadcast_object_list([epoch, global_step], src=0) completes on    *)
(* every rank; __init__ returns and train() reads start_epoch.             *)
BroadcastComplete ==
    /\ \A r \in Ranks : pc[r] = "bcast"
    /\ recvbuf' = [r \in Ranks |-> sendbuf[0]]
    /\ state' = [r \in Ranks |-> AfterBroadcast(state[r], sendbuf[0])]
    /\ loaded' = state'
    /\ start_epoch' = [r \in Ranks |-> state'[r].epoch]
    /\ epoch' = start_epoch'
    /\ pc' = [r \in Ranks |-> "loop"]
    /\ UNCHANGED <<cfgVars, scheduler, optSteps, grads, loopVars, sendbuf, store,
                   writes, trace, epochsRun, hist, err, events, logged>>

(* train(): the head of `for epoch in range(start_epoch, config.epochs)`;  *)
(* entering train_epoch, or dist.destroy_process_group() after the loop.   *)
LoopHead(r) ==
    /\ pc[r] = "loop"
    /\ IF epoch[r] < config.epochs
       THEN /\ pc' = [pc EXCEPT ![r] = "batch"]
            /\ batch_idx' = [batch_idx EXCEPT ![r] = 0]
            /\ total_loss' = [total_loss EXCEPT ![r] = RatZero]
            /\ accum_steps' = [accum_steps EXCEPT ![r] = 0]
            /\ events' = [events EXCEPT ![r] = <<>>]
       ELSE /\ pc' = [pc EXCEPT ![r] = "done"]
            /\ UNCHANGED <<batch_idx, total_loss, accum_steps, events>>
    /\ UNCHANGED <<cfgVars, state, scheduler, optSteps, grads, epoch, start_epoch,
                   val_idx, collVars, store, writes, trace, epochsRun, loaded, hist,
                   err, logged>>

(* train_epoch: one micro-batch of loss l up to the window test; at a      *)
(* boundary the rank enters dist.all_reduce.                               *)
MicroBatch(r, l) ==
    /\ pc[r] = "batch"
    /\ batch_idx[r] < nTrain
    /\ grads' = [grads EXCEPT ![r] = @ + 1]
    /\ total_loss' = [total_loss EXCEPT ![r] = RatAdd(@, <<l, 1>>)]
    /\ accum_steps' = [accum_steps EXCEPT ![r] = @ + 1]
    /\ IF config.grad_accum_steps = 0
       THEN \* the window test divides by zero
            /\ Raise(r, "ZeroDivisionError")
            /\ UNCHANGED <<batch_idx, sendbuf, events>>
       ELSE IF AtWindowBoundary(batch_idx[r], config.grad_accum_steps)
       THEN /\ pc' = [pc EXCEPT ![r] = "train_ar"]
            /\ sendbuf' = [sendbuf EXCEPT ![r] = total_loss'[r]]
            /\ events' = [events EXCEPT ![r] = Append(@, "all_reduce")]
            /\ UNCHANGED <<batch_idx, err>>
       ELSE /\ batch_idx' = [batch_idx EXCEPT ![r] = @ + 1]
            /\ UNCHANGED <<pc, sendbuf, err, events>>
    /\ UNCHANGED <<cfgVars, state, scheduler, optSteps, epoch, start_epoch,
                   val_idx, recvbuf, store, writes, trace, epochsRun, loaded, hist,
                   logged>>

(* dist.all_reduce(SUM) completes once every rank has entered one.         *)
AllReduceComplete ==
    /\ \A r \in Ranks : pc[r] \in {"train_ar", "val_ar"}
    /\ recvbuf' = [r \in Ranks |-> ReduceSum(sendbuf, Ranks)]
    /\ pc' = [r \in Ranks |-> IF pc[r] = "train_ar" THEN "train_step" ELSE "val_step"]
    /\ UNCHANGED <<cfgVars, state, scheduler, optSteps, grads, epoch, start_epoch,
                   loopVars, sendbuf, store, histVars>>

\* avg_loss = total_loss_tensor.item() / (accum_steps * world_size), rank 0
LogLine(r) ==
    IF IsMain(r) THEN RatDivInt(recvbuf[r], accum_steps[r] * WorldSize) ELSE logged[r]

\* total_loss = 0.0 after the log line
ResetRunningSumMut(total) == total
ResetRunningSum(total) == RatZero

\* self.scheduler.step()
SchedulerTickMut(sch) == sch
SchedulerTick(sch) == [sch EXCEPT !.last_epoch = @ + 1]

(* train_epoch after the all_reduce: the log line, reset of the running    *)
(* sum, clip, optimizer.step(), zero_grad(), scheduler.step(),             *)
(* global_step += 1.  A placeholder optimizer or schedule has no step();   *)
(* OneCycleLR.step() raises once it is stepped beyond total_steps.         *)
OptimizerStep(r) ==
    /\ pc[r] = "train_step"
    /\ logged' = [logged EXCEPT ![r] = LogLine(r)]
    /\ total_loss' = [total_loss EXCEPT ![r] = ResetRunningSum(@)]
    /\ accum_steps' = [accum_steps EXCEPT ![r] = 0]
    /\ IF CreateOptimizer(config) # "AdamW"
       THEN /\ Raise(r, "AttributeError")
            /\ UNCHANGED <<optSteps, grads, scheduler, state, batch_idx, events>>
       ELSE /\ optSteps' = [optSteps EXCEPT ![r] = @ + 1]
            /\ grads' = [grads EXCEPT ![r] = 0]
            /\ IF CreateScheduler(config) # "OneCycleLR"
               THEN /\ Raise(r, "AttributeError")
                    /\ events' = [events EXCEPT ![r] = Append(@, "optimizer.step")]
                    /\ UNCHANGED <<scheduler, state, batch_idx>>
               ELSE /\ scheduler' = [scheduler EXCEPT ![r] = SchedulerTick(@)]
                    /\ events' = [events EXCEPT ![r] =
                           @ \o <<"optimizer.step", "scheduler.step">>]
                    /\ IF scheduler[r].last_epoch + 1 > scheduler[r].total_steps
                       THEN /\ Raise(r, "ValueError")
                            /\ UNCHANGED <<state, batch_idx>>
                       ELSE /\ state' = [state EXCEPT ![r] = StepCounter(r, @)]
                            /\ batch_idx' = [batch_idx EXCEPT ![r] = @ + 1]
                            /\ pc' = [pc EXCEPT ![r] = "batch"]
                            /\ UNCHANGED err
    /\ UNCHANGED <<cfgVars, epoch, start_epoch, val_idx, collVars, store,
                   writes, trace, epochsRun, loaded, hist>>

\* validate: `if not self.val_loader: return`
ValLoaderEmptyMut(n) == FALSE
ValLoaderEmpty(n) == n = 0

(* train_epoch: the loader is exhausted, self.state.epoch += 1; back in    *)
(* train(), the validation cadence test and the entry of validate().       *)
EndTrainEpoch(r) ==
    /\ pc[r] = "batch"
    /\ batch_idx[r] = nTrain
    /\ state' = [state EXCEPT ![r] = EpochCounter(@)]
    /\ epochsRun' = [epochsRun EXCEPT ![r] = @ + 1]
    /\ IF config.validation_freq = 0
       THEN \* the cadence test divides by zero
            /\ trace' = [trace EXCEPT ![r] =
                   Append(@, [op |-> "train_epoch", epoch |-> epoch[r]])]
            /\ Raise(r, "ZeroDivisionError")
            /\ UNCHANGED <<total_loss, val_idx>>
       ELSE IF Cadence(epoch[r], config.validation_freq)
       THEN /\ trace' = [trace EXCEPT ![r] =
                   @ \o << [op |-> "train_epoch", epoch |-> epoch[r]],
                           [op |-> "validate", epoch |-> epoch[r]] >>]
            /\ UNCHANGED err
            /\ IF ValLoaderEmpty(nVal)
               THEN /\ pc' = [pc EXCEPT ![r] = "ckpt"]
                    /\ UNCHANGED <<total_loss, val_idx>>
               ELSE /\ pc' = [pc EXCEPT ![r] = "val"]
                    /\ total_loss' = [total_loss EXCEPT ![r] = RatZero]
                    /\ val_idx' = [val_idx EXCEPT ![r] = 0]
       ELSE /\ trace' = [trace EXCEPT ![r] =
                   Append(@, [op |-> "train_epoch", epoch |-> epoch[r]])]
            /\ pc' = [pc EXCEPT ![r] = "ckpt"]
            /\ UNCHANGED <<total_loss, val_idx, err>>
    /\ UNCHANGED <<cfgVars, scheduler, optSteps, grads, epoch, start_epoch,
                   batch_idx, accum_steps, collVars, store, writes, loaded, hist,
                   events, logged>>

(* validate: one batch, up to the all_reduce of its loss.                  *)
ValBatch(r) ==
    /\ pc[r] = "val"
    /\ val_idx[r] < nVal
    /\ sendbuf' = [sendbuf EXCEPT ![r] = <<ValLossOf(r), 1>>]
    /\ pc' = [pc EXCEPT ![r] = "val_ar"]
    /\ UNCHANGED <<cfgVars, state, scheduler, optSteps, grads, epoch, start_epoch,
                   loopVars, recvbuf, store, histVars>>

(* validate: total_loss += loss_tensor.item() / world_size                 *)
ValAccumulate(r) ==
    /\ pc[r] = "val_step"
    /\ total_loss' = [total_loss EXCEPT ![r] = RatAdd(@, RatDivInt(recvbuf[r], WorldSize))]
    /\ val_idx' = [val_idx EXCEPT ![r] = @ + 1]
    /\ pc' = [pc EXCEPT ![r] = "val"]
    /\ UNCHANGED <<cfgVars, state, scheduler, optSteps, grads, epoch, start_epoch,
                   batch_idx, accum_steps, collVars, store, histVars>>

\* avg_loss = total_loss / len(self.val_loader)
AvgLoss(r) == RatDivInt(total_loss[r], nVal)

\* validate: `if self.is_main: ... if avg_loss < self.state.best_loss:`
IsNewBest(r) == IsMain(r) /\ RatLess(AvgLoss(r), state[r].best_loss)

(* validate after the last batch: the mean, the comparison with best_loss  *)
(* and the "best" save.                                                    *)
ValFinish(r) ==
    /\ pc[r] = "val"
    /\ val_idx[r] = nVal
    /\ IF IsNewBest(r)
       THEN /\ state' = [state EXCEPT ![r].best_loss = AvgLoss(r)]
            /\ store' \in StoreAfterSave(r, state'[r], TRUE)
            /\ writes' = WritesAfterSave(r, state'[r], TRUE)
            /\ IF SaveError(r) # "none"
               THEN Raise(r, SaveError(r))
               ELSE pc' = [pc EXCEPT ![r] = "ckpt"] /\ UNCHANGED err
       ELSE /\ pc' = [pc EXCEPT ![r] = "ckpt"]
            /\ UNCHANGED <<state, store, writes, err>>
    /\ UNCHANGED <<cfgVars, scheduler, optSteps, grads, epoch, start_epoch,
                   loopVars, collVars, trace, epochsRun, loaded, hist, events, logged>>

(* train(): the checkpoint cadence test, save_checkpoint(), next epoch.    *)
PeriodicCheckpoint(r) ==
    /\ pc[r] = "ckpt"
    /\ IF config.checkpoint_freq = 0
       THEN \* the cadence test divides by zero
            /\ Raise(r, "ZeroDivisionError")
            /\ UNCHANGED <<store, writes, trace, epoch, hist>>
       ELSE IF Cadence(epoch[r], config.checkpoint_freq)
       THEN /\ store' \in StoreAfterSave(r, state[r], FALSE)
            /\ writes' = WritesAfterSave(r, state[r], FALSE)
            /\ trace' = [trace EXCEPT ![r] =
                   Append(@, [op |-> "save_checkpoint", epoch |-> epoch[r]])]
            /\ IF SaveError(r) # "none"
               THEN /\ Raise(r, SaveError(r))
                    /\ UNCHANGED <<epoch, hist>>
               ELSE /\ epoch' = [epoch EXCEPT ![r] = @ + 1]
                    /\ pc' = [pc EXCEPT ![r] = "loop"]
                    /\ hist' = IF run = 1
                               THEN [hist EXCEPT ![r] = (state[r].epoch :> state[r]) @@ @]
                               ELSE hist
                    /\ UNCHANGED err
       ELSE /\ epoch' = [epoch EXCEPT ![r] = @ + 1]
            /\ pc' = [pc EXCEPT ![r] = "loop"]
            /\ hist' = IF run = 1
                       THEN [hist EXCEPT ![r] = (state[r].epoch :> state[r]) @@ @]
                       ELSE hist
            /\ UNCHANGED <<store, writes, trace, err>>
    /\ UNCHANGED <<cfgVars, state, scheduler, optSteps, grads, start_epoch,
                   loopVars, collVars, epochsRun, loaded, events, logged>>

(* The job has ended on every rank; a new job is launched with the same    *)
(* config and data and resume_checkpoint set to a file of the directory.   *)
Restart ==
    /\ run < MaxRuns
    /\ \A r \in Ranks : pc[r] \in {"done", "failed"}
    /\ \E name \in DOMAIN store :
           config' = [config EXCEPT !.resume_checkpoint = name]
    /\ run' = run + 1
    /\ pc' = [r \in Ranks |-> "init"]
    /\ state' = [r \in Ranks |-> InitialTrainerState]
    /\ scheduler' = [r \in Ranks |-> [last_epoch |-> 0, total_steps |-> 0]]
    /\ optSteps' = [r \in Ranks |-> 0]
    /\ grads' = [r \in Ranks |-> 0]
    /\ epoch' = [r \in Ranks |-> 0]
    /\ start_epoch' = [r \in Ranks |-> 0]
    /\ batch_idx' = [r \in Ranks |-> 0]
    /\ total_loss' = [r \in Ranks |-> RatZero]
    /\ accum_steps' = [r \in Ranks |-> 0]
    /\ val_idx' = [r \in Ranks |-> 0]
    /\ sendbuf' = [r \in Ranks |-> RatZero]
    /\ recvbuf' = [r \in Ranks |-> RatZero]
    /\ trace' = [r \in Ranks |-> <<>>]
    /\ epochsRun' = [r \in Ranks |-> 0]
    /\ loaded' = [r \in Ranks |-> NoState]
    /\ err' = [r \in Ranks |-> "none"]
    /\ events' = [r \in Ranks |-> <<>>]
    /\ logged' = [r \in Ranks |-> RatZero]
    /\ UNCHANGED <<nTrain, nVal, valLoss, disk, store, writes, hist>>

RankStep(r) ==
    \/ LoopHead(r)
    \/ MicroBatch(r, TrainLossOf(r))
    \/ OptimizerStep(r)
    \/ EndTrainEpoch(r)
    \/ ValBatch(r)
    \/ ValAccumulate(r)
    \/ ValFinish(r)
    \/ PeriodicCheckpoint(r)

Next ==
    \/ \E r \in Ranks : Construct(r, ReadShared)
    \/ \E r \in Ranks : RankStep(r)
    \/ BroadcastComplete
    \/ AllReduceComplete
    \/ Restart

Spec == Init /\ [][Next]_vars

----------------------------------------------------------------------------
(* The same program when the checkpoint directory is not one shared        *)
(* durable store: what a rank reads at resume_checkpoint is some bundle    *)
(* that was written under the directory, not necessarily the one rank 0    *)
(* reads.                                                                  *)
LocalViews ==
    IF config.resume_checkpoint = NoPath THEN {NoBundle}
    ELSE {store[n] : n \in DOMAIN store}

NextLocal ==
    \/ \E r \in Ranks : \E b \in LocalViews : Construct(r, b)
    \/ \E r \in Ranks : RankStep(r)
    \/ BroadcastComplete
    \/ AllReduceComplete
    \/ Restart

SpecLocal == Init /\ [][NextLocal]_vars

----------------------------------------------------------------------------
(* The same program started with any TrainingConfig: optimizer and         *)
(* lr_scheduler of a kind the trainer does not build, and integer fields   *)
(* that are zero or negative.  TrainingConfig validates nothing.           *)
AnyConfigs ==
    [ epochs : 1 .. MaxEpochs - 1,
      grad_accum_steps : -1 .. MaxAccum,
      optimizer : {"AdamW", "SGD"},
      lr_scheduler : {"OneCycleLR", "CosineAnnealingLR"},
      validation_freq : -1 .. MaxFreq - 1,
      checkpoint_freq : -1 .. MaxFreq - 1,
      resume_checkpoint : {NoPath} ]

InitAnyConfig == InitJob(AnyConfigs) /\ store = <<>>

SpecAnyConfig == InitAnyConfig /\ [][Next]_vars

----------------------------------------------------------------------------
(* The same program on a checkpoint directory whose disk can fill up at    *)
(* any moment; from then on torch.save raises.                             *)
DiskFills ==
    /\ disk = "ok"
    /\ disk' = "full"
    /\ UNCHANGED <<config, nTrain, nVal, valLoss, run, rankVars, loopVars,
                   collVars, store, histVars>>

NextDisk ==
    \/ Next
    \/ DiskFills

SpecDisk == Init /\ [][NextDisk]_vars

----------------------------------------------------------------------------
(* The same program started with resume_checkpoint set by the user: the    *)
(* path may not exist, and the file at it is any bundle, written by an      *)
(* earlier job after its first epoch, possibly under another optimizer or  *)
(* lr_scheduler, possibly with a key missing or truncated.                 *)
ResumePath == FileName(1, FALSE)

OptimizerKinds == {"AdamW", "SGD"}
SchedulerKinds == {"OneCycleLR", "StepLR"}

ResumeConfigs ==
    [ epochs : 1 .. MaxEpochs - 1,
      grad_accum_steps : 1 .. MaxAccum,
      optimizer : {"AdamW"},
      lr_scheduler : {"OneCycleLR"},
      validation_freq : 1 .. MaxFreq,
      checkpoint_freq : 1 .. MaxFreq,
      resume_checkpoint : {ResumePath} ]

KeySets == {BundleKeys \ K : K \in {{}} \cup {{k} : k \in BundleKeys}} \cup {{}}

InputBundles(cfg, n) ==
    LET k == PyFloorDiv(n, cfg.grad_accum_steps) IN
    { [ keys |-> ks,
        model_state |-> k,
        optimizer_state |-> k,
        scheduler_state |-> [last_epoch |-> k, total_steps |-> TotalSteps(cfg, n)],
        trainer_state |-> [epoch |-> 1, global_step |-> k, best_loss |-> Inf],
        config |-> [cfg EXCEPT !.optimizer = o, !.lr_scheduler = s,
                               !.resume_checkpoint = NoPath] ] :
      ks \in KeySets, o \in OptimizerKinds, s \in SchedulerKinds }

InputDirs(cfg, n) == {<<>>} \cup {ResumePath :> b : b \in InputBundles(cfg, n)}

InitResume == InitJob(ResumeConfigs) /\ store \in InputDirs(config, nTrain)

SpecResume == InitResume /\ [][Next]_vars

----------------------------------------------------------------------------
(* The same program on arbitrary training data: the loss of every          *)
(* micro-batch on every rank is any value of LossVals.                     *)
LossConfigs ==
    [ epochs : 1 .. MaxEpochs - 1,
      grad_accum_steps : 1 .. MaxAccum,
      optimizer : {"AdamW"},
      lr_scheduler : {"OneCycleLR"},
      validation_freq : {MaxFreq},
      checkpoint_freq : {MaxFreq},
      resume_checkpoint : {NoPath} ]

InitLoss == InitJob(LossConfigs) /\ store = <<>>

RankStepLoss(r) ==
    \/ LoopHead(r)
    \/ \E l \in LossVals : MicroBatch(r, l)
    \/ OptimizerStep(r)
    \/ EndTrainEpoch(r)
    \/ ValBatch(r)
    \/ ValAccumulate(r)
    \/ ValFinish(r)
    \/ PeriodicCheckpoint(r)

NextLoss ==
    \/ \E r \in Ranks : Construct(r, ReadShared)
    \/ \E r \in Ranks : RankStepLoss(r)
    \/ BroadcastComplete
    \/ AllReduceComplete
    \/ Restart

SpecLoss == InitLoss /\ [][NextLoss]_vars

----------------------------------------------------------------------------
(* Positions of a rank's process.                                          *)
InTrainEpoch == {"batch", "train_ar", "train_step"}
BetweenEpochs == {"loop", "val", "val_ar", "val_step", "ckpt", "done"}
Fresh == config.resume_checkpoint = NoPath

\* optimizer steps one epoch of the job takes: floor(B / W)
StepsPerEpoch == nTrain \div config.grad_accum_steps

(* C1: in a fresh run, a rank that has finished train() has global_step =  *)
(* epochs * floor(B / W); after every completed epoch the counter is       *)
(* (completed epochs) * floor(B / W), and inside an epoch it is that plus  *)
(* floor(batch_idx / W), the batch index having restarted at 0: a trailing *)
(* partial window adds no step.                                            *)
C1_StepCount ==
    \A r \in Ranks :
        Fresh =>
            /\ pc[r] = "done" =>
                   state[r].global_step = config.epochs * StepsPerEpoch
            /\ pc[r] \in BetweenEpochs =>
                   state[r].global_step = epochsRun[r] * StepsPerEpoch
            /\ pc[r] \in InTrainEpoch =>
                   state[r].global_step =
                       epochsRun[r] * StepsPerEpoch
                       + (batch_idx[r] \div config.grad_accum_steps)

\* a fresh job of two epochs or more, each ending in a partial window
C1_Witness ==
    /\ Fresh
    /\ \A r \in Ranks : pc[r] = "done"
    /\ config.epochs >= 2
    /\ nTrain % config.grad_accum_steps # 0
    /\ state[0].global_step = config.epochs * StepsPerEpoch
    /\ state[0].global_step > 0

(* C2: a rank of a job resumed from the periodic bundle of epoch N, once   *)
(* it has run one more epoch with its validation and checkpoint steps,     *)
(* holds the TrainerState the uninterrupted job held on that rank after    *)
(* epoch N + 1.                                                            *)
C2_ResumeIdempotent ==
    \A r \in Ranks :
        ( /\ ~Fresh
          /\ config.resume_checkpoint.kind = "checkpoint"
          /\ pc[r] = "loop"
          /\ epochsRun[r] = 1
          /\ state[r].epoch \in DOMAIN hist[r] )
        => state[r] = hist[r][state[r].epoch]

\* the same on the coordinating rank alone
C2_ResumeIdempotentRank0 ==
    ( /\ ~Fresh
      /\ config.resume_checkpoint.kind = "checkpoint"
      /\ pc[0] = "loop"
      /\ epochsRun[0] = 1
      /\ state[0].epoch \in DOMAIN hist[0] )
    => state[0] = hist[0][state[0].epoch]

(* C3: once validate has returned on every rank in the same epoch, every   *)
(* rank's best_loss equals rank 0's.                                       *)
C3_BestLockstep ==
    ( \A r \in Ranks : pc[r] \in {"ckpt", "loop", "done"}
                       /\ epochsRun[r] = epochsRun[0] )
    => \A r \in Ranks : state[r].best_loss = state[0].best_loss

\* every rank holds rank 0's (epoch, global_step)
SameCounters ==
    \A r \in Ranks :
        /\ state[r].epoch = state[0].epoch
        /\ state[r].global_step = state[0].global_step

(* C4: when no rank is inside train_epoch and all ranks have completed     *)
(* the same number of train_epoch calls, and when all ranks wait in the    *)
(* all_reduce of an accumulation window, every rank holds the same         *)
(* (epoch, global_step).                                                   *)
C4_CounterLockstep ==
    /\ ( \A r \in Ranks : pc[r] \in BetweenEpochs /\ epochsRun[r] = epochsRun[0] )
       => SameCounters
    /\ ( \A r \in Ranks : pc[r] = "train_ar" ) => SameCounters

\* a resumed job, all ranks in the all_reduce of a window of its 2nd epoch
C4_Witness ==
    /\ ~Fresh
    /\ \A r \in Ranks : pc[r] = "train_ar"
    /\ epochsRun[0] >= 1
    /\ state[1].global_step > loaded[1].global_step
    /\ SameCounters

\* a validation pass has lowered rank 0's best_loss
C3_Reached ==
    /\ \A r \in Ranks : pc[r] = "ckpt" /\ epochsRun[r] = 1
    /\ state[0].best_loss # Inf

(* C5: once load_checkpoint has returned on every rank, whatever bundle    *)
(* each rank read, every rank holds rank 0's (epoch, global_step).         *)
C5_ResumeSync ==
    \A r \in Ranks :
        loaded[r] # NoState =>
            /\ loaded[r].epoch = loaded[0].epoch
            /\ loaded[r].global_step = loaded[0].global_step

\* the step appends a write under the name "best"
BestSaved == Len(writes') = Len(writes) + 1 /\ writes'[Len(writes')].best

C6_Step ==
    /\ (pc[0] = "init" /\ pc'[0] = "loop") => state'[0].best_loss = Inf
    /\ (pc[0] # "init" /\ pc'[0] # "init") =>
          /\ state'[0].best_loss # state[0].best_loss =>
                 /\ pc[0] = "val" /\ val_idx[0] = nVal /\ pc'[0] = "ckpt"
                 /\ state'[0].best_loss = AvgLoss(0)
                 /\ AvgLoss(0)[1] * state[0].best_loss[2]
                        < state[0].best_loss[1] * AvgLoss(0)[2]
          /\ BestSaved <=> state'[0].best_loss # state[0].best_loss
          /\ BestSaved => writes'[Len(writes')].bundle.trainer_state = state'[0]

(* C6: on rank 0, outside construction, best_loss changes only at the end  *)
(* of a validation pass whose mean is strictly below it, and then to that  *)
(* mean; a file is written under the name "best" in exactly the steps      *)
(* that change best_loss; a fresh trainer starts at +infinity.             *)
C6_BestMonotone == [][C6_Step]_vars

\* two validation passes of one job with equal means: one "best" save
C6_Witness ==
    /\ Fresh
    /\ nVal > 0
    /\ config.validation_freq = 1
    /\ config.epochs >= 2
    /\ valLoss[1] = valLoss[2]
    /\ pc[0] = "ckpt"
    /\ epochsRun[0] = 2
    /\ Cardinality({i \in 1 .. Len(writes) : writes[i].best}) = 1
    /\ state[0].best_loss = AvgLoss(0)

\* the calls the cadence prescribes for the loop indices from .. to - 1
RECURSIVE ExpectedCalls(_, _)
ExpectedCalls(from, to) ==
    IF to <= from THEN <<>>
    ELSE LET i == to - 1 IN
         ExpectedCalls(from, i)
         \o << [op |-> "train_epoch", epoch |-> i] >>
         \o (IF (i + 1) % config.validation_freq = 0
             THEN << [op |-> "validate", epoch |-> i] >> ELSE <<>>)
         \o (IF (i + 1) % config.checkpoint_freq = 0
             THEN << [op |-> "save_checkpoint", epoch |-> i] >> ELSE <<>>)

\* the number a sequence of decimal digits writes
RECURSIVE DecimalValue(_)
DecimalValue(ds) ==
    IF ds = <<>> THEN 0
    ELSE 10 * DecimalValue(SubSeq(ds, 1, Len(ds) - 1)) + ds[Len(ds)]

\* the periodic writes of job j
PeriodicWrites(j) == {i \in 1 .. Len(writes) : ~writes[i].best /\ writes[i].run = j}

(* C7: the calls train() has made on a rank when it is at the loop head    *)
(* are, for each loop index i from start_epoch on: train_epoch, then       *)
(* validate iff (i + 1) % validation_freq = 0, then save_checkpoint iff    *)
(* (i + 1) % checkpoint_freq = 0.  Every periodic file is named by four    *)
(* digits whose value is the number of completed epochs, which is the      *)
(* epoch inside the bundle.  With checkpoint_freq = 2 and epochs = 5 the   *)
(* periodic files of the fresh job are 0002 and 0004.                      *)
C7_Cadence ==
    /\ \A r \in Ranks :
           pc[r] \in {"loop", "done"} =>
               /\ trace[r] = ExpectedCalls(start_epoch[r], epoch[r])
               /\ epoch[r] = start_epoch[r] + epochsRun[r]
    /\ \A i \in 1 .. Len(writes) :
           ~writes[i].best =>
               /\ writes[i].name.kind = "checkpoint"
               /\ Len(writes[i].name.digits) = 4
               /\ DecimalValue(writes[i].name.digits) = writes[i].completed
               /\ writes[i].bundle.trainer_state.epoch = writes[i].completed
               /\ writes[i].completed % config.checkpoint_freq = 0
    /\ (pc[0] = "done" /\ run = 1) =>
           {writes[i].completed : i \in PeriodicWrites(1)}
               = {k \in 1 .. config.epochs : k % config.checkpoint_freq = 0}
    /\ (pc[0] = "done" /\ run = 1 /\ config.epochs = 5 /\ config.checkpoint_freq = 2) =>
           {writes[i].name.digits : i \in PeriodicWrites(1)}
               = {<<0, 0, 0, 2>>, <<0, 0, 0, 4>>}

\* the fresh job of the scenario has reached teardown
C7_Witness ==
    /\ run = 1
    /\ config.epochs = 5
    /\ config.checkpoint_freq = 2
    /\ \A r \in Ranks : pc[r] = "done"
    /\ {writes[i].name.digits : i \in PeriodicWrites(1)} = {<<0, 0, 0, 2>>, <<0, 0, 0, 4>>}

C8_Step ==
    /\ (store' # store \/ writes' # writes) =>
           /\ Len(writes') = Len(writes) + 1
           /\ writes'[Len(writes')].rank = 0
           /\ pc'[0] # pc[0]
           /\ \A r \in Ranks \ {0} : pc'[r] = pc[r]
    /\ \A r \in Ranks \ {0} :
           (pc[r] \in {"val", "ckpt"} /\ pc'[r] # pc[r]) =>
               /\ store' = store
               /\ writes' = writes
               /\ state'[r] = state[r]

(* C8: every step that writes to the checkpoint directory is a step of     *)
(* rank 0 alone; a rank other than 0 that passes save_checkpoint leaves    *)
(* the directory and its own TrainerState as they were.                    *)
C8_SingleWriter == [][C8_Step]_vars

\* rank 1 has passed a save_checkpoint call that the cadence prescribed
C8_Witness ==
    /\ pc[1] = "loop"
    /\ Len(trace[1]) > 0
    /\ trace[1][Len(trace[1])].op = "save_checkpoint"
    /\ \A i \in 1 .. Len(writes) : writes[i].rank = 0
    /\ Len(writes) > 0

\* a step of the running job
JobStep ==
    \/ \E r \in Ranks : Construct(r, ReadShared)
    \/ \E r \in Ranks : RankStep(r)
    \/ BroadcastComplete
    \/ AllReduceComplete

Max(a, b) == IF a >= b THEN a ELSE b

(* C9: the job always ends in teardown on every rank: as long as some      *)
(* rank has not reached destroy_process_group some rank or collective can  *)
(* take a step, and a rank that has reached it has run                     *)
(* max(0, epochs - start_epoch) epochs and holds                           *)
(* epoch = max(start_epoch, epochs).                                       *)
C9_Teardown ==
    /\ (\A r \in Ranks : pc[r] = "done") \/ ENABLED JobStep
    /\ \A r \in Ranks :
           pc[r] = "done" =>
               /\ epochsRun[r] = Max(0, config.epochs - start_epoch[r])
               /\ state[r].epoch = Max(start_epoch[r], config.epochs)

\* the same for the jobs whose schedule has at least one tick
C9_TeardownWhenScheduled ==
    TotalSteps(config, nTrain) > 0 => C9_Teardown

C10_Step ==
    \A r \in Ranks :
        /\ epochsRun'[r] = epochsRun[r] + 1 =>
               /\ state'[r].epoch = state[r].epoch + 1
               /\ state'[r].global_step = state[r].global_step
        /\ (pc[r] = "batch" /\ batch_idx[r] = nTrain /\ pc'[r] # pc[r]) =>
               epochsRun'[r] = epochsRun[r] + 1
        /\ (epochsRun'[r] = epochsRun[r] /\ pc[r] # "init" /\ pc'[r] # "init") =>
               state'[r].epoch = state[r].epoch
        /\ (pc[r] \in {"val", "val_ar", "val_step", "ckpt"}) =>
               /\ state'[r].epoch = state[r].epoch
               /\ state'[r].global_step = state[r].global_step

(* C10: a step that completes train_epoch raises the rank's epoch by       *)
(* exactly 1 and leaves global_step; no other step of a constructed        *)
(* trainer changes epoch, and the steps of validate and save_checkpoint    *)
(* change neither epoch nor global_step.                                   *)
C10_EpochMonotone == [][C10_Step]_vars

\* a resumed rank has completed two train_epoch calls
C10_Witness ==
    /\ ~Fresh
    /\ pc[1] = "ckpt"
    /\ epochsRun[1] = 2
    /\ state[1].epoch = loaded[1].epoch + 2
    /\ loaded[1].epoch >= 1

UnsupportedKind(cfg) ==
    CreateOptimizer(cfg) # "AdamW" \/ CreateScheduler(cfg) # "OneCycleLR"

PositiveFields(cfg) ==
    cfg.grad_accum_steps > 0 /\ cfg.validation_freq > 0 /\ cfg.checkpoint_freq > 0

(* C11: a config whose optimizer or lr_scheduler is not a supported kind   *)
(* is fatal at startup: construction fails on every rank, so no rank       *)
(* enters the epoch loop, processes a micro-batch, takes an optimizer step *)
(* or completes an epoch, and nothing is written.                          *)
C11_UnsupportedKindFatal ==
    (UnsupportedKind(config) /\ PositiveFields(config)) =>
        /\ \A r \in Ranks :
              /\ pc[r] \in {"init", "failed"}
              /\ grads[r] = 0 /\ optSteps[r] = 0 /\ epochsRun[r] = 0
        /\ writes = <<>>

(* C12: a config whose grad_accum_steps, validation_freq or                *)
(* checkpoint_freq is not strictly positive is rejected before any         *)
(* training epoch executes: no rank enters the epoch loop, no micro-batch  *)
(* is processed and TrainerState stays at its initial value.               *)
C12_InvalidConfigFatal ==
    (~PositiveFields(config) /\ ~UnsupportedKind(config)) =>
        \A r \in Ranks :
            /\ pc[r] \in {"init", "failed"}
            /\ grads[r] = 0 /\ epochsRun[r] = 0
            /\ state[r] = InitialTrainerState

\* the part of C12 that the code does deliver: grad_accum_steps <= 0
C12_AccumRejected ==
    (config.grad_accum_steps <= 0 /\ ~UnsupportedKind(config)) =>
        \A r \in Ranks : pc[r] \in {"init", "failed"} /\ state[r] = InitialTrainerState

\* a rank of the running job waits in a collective no other rank will enter
Blocked(r) ==
    /\ pc[r] \in {"bcast", "train_ar", "val_ar"}
    /\ \E q \in Ranks : pc[q] \in {"done", "failed"}

(* C13: a checkpoint write that fails does not crash the run: the          *)
(* exception of torch.save does not end train() on rank 0, and no rank is  *)
(* left waiting in a collective that rank 0 will never enter.              *)
C13_SaveFailureConfined ==
    /\ \A r \in Ranks : err[r] # "OSError"
    /\ (disk = "full" /\ TotalSteps(config, nTrain) > 0) =>
           \A r \in Ranks : ~Blocked(r)

C13_NoRankBlocked ==
    (disk = "full" /\ TotalSteps(config, nTrain) > 0) => \A r \in Ranks : ~Blocked(r)

\* the job was started with resume_checkpoint set by the user
UserResume == run = 1 /\ config.resume_checkpoint = ResumePath

\* the schedule of the job can be built
Schedulable == CreateError(config, nTrain) = "none"

\* the file at the resume path lacks a key load reads with checkpoint[...]
LacksRequiredKey(b) ==
    \E k \in {"model_state", "optimizer_state", "trainer_state", "config"} :
        k \notin b.keys

(* C14: when load_checkpoint fails, because there is no file at the resume *)
(* path or the bundle lacks model_state, optimizer_state, trainer_state or *)
(* config, the failure happens during construction: the rank never enters  *)
(* the epoch loop, runs no epoch and processes no batch, and its           *)
(* TrainerState is still the initial one.  A bundle that lacks only        *)
(* scheduler_state is accepted: the rank resumes from the stored           *)
(* TrainerState.                                                           *)
C14_LoadFailureAborts ==
    (UserResume /\ Schedulable) =>
        \A r \in Ranks :
            /\ (pc[r] # "init" /\ (ReadShared = NoBundle \/ LacksRequiredKey(ReadShared))) =>
                   /\ pc[r] = "failed"
                   /\ err[r] \in {"FileNotFoundError", "UnpicklingError", "KeyError"}
                   /\ epochsRun[r] = 0 /\ grads[r] = 0 /\ optSteps[r] = 0
                   /\ state[r] = InitialTrainerState
                   /\ loaded[r] = NoState
            /\ (pc[r] # "init" /\ ReadShared # NoBundle
                    /\ ReadShared.keys = BundleKeys \ {"scheduler_state"}) =>
                   /\ pc[r] # "failed"
                   /\ pc[r] # "bcast" => loaded[r] = ReadShared.trainer_state

C14_Witness ==
    /\ UserResume /\ Schedulable
    /\ ReadShared # NoBundle
    /\ ReadShared.keys = BundleKeys \ {"trainer_state"}
    /\ \A r \in Ranks : pc[r] = "failed" /\ err[r] = "KeyError"

C14_WitnessAccepted ==
    /\ UserResume /\ Schedulable
    /\ ReadShared # NoBundle
    /\ ReadShared.keys = BundleKeys \ {"scheduler_state"}
    /\ \A r \in Ranks : pc[r] = "done" /\ epochsRun[r] > 0

C14_WitnessMissing ==
    /\ UserResume /\ Schedulable
    /\ ReadShared = NoBundle
    /\ \A r \in Ranks : pc[r] = "failed" /\ err[r] = "FileNotFoundError"

\* the stored config names another optimizer or lr_scheduler than the live one
KindMismatch(b) ==
    \/ b.config.optimizer # config.optimizer
    \/ b.config.lr_scheduler # config.lr_scheduler

(* C15: when the config stored in the loaded bundle has another optimizer  *)
(* kind or schedule kind than the live config, load_checkpoint ends in an  *)
(* error instead of restoring: no rank gets past construction.             *)
C15_MismatchReported ==
    (UserResume /\ Schedulable /\ ReadShared # NoBundle) =>
        \A r \in Ranks :
            ("config" \in ReadShared.keys /\ KindMismatch(ReadShared) /\ pc[r] # "init")
                => pc[r] = "failed"

\* train() calls validate() on rank r in this step
ValidateCalled(r) ==
    /\ Len(trace'[r]) > Len(trace[r])
    /\ trace'[r][Len(trace'[r])].op = "validate"

C16_Step ==
    nVal = 0 =>
        /\ \A r \in Ranks :
               /\ pc'[r] \notin {"val", "val_ar", "val_step"}
               /\ state'[r].best_loss = Inf
               /\ ValidateCalled(r) =>
                      /\ pc'[r] = "ckpt"
                      /\ state'[r].best_loss = state[r].best_loss
                      /\ total_loss'[r] = total_loss[r]
                      /\ val_idx'[r] = val_idx[r]
                      /\ UNCHANGED <<sendbuf, recvbuf, store, writes>>
        /\ \A i \in 1 .. Len(writes') : ~writes'[i].best

(* C16: with a validation loader of zero batches validate() is a no-op on  *)
(* every rank: the call returns at once, the rank enters no collective,    *)
(* computes no mean, does not compare or change best_loss (it stays +inf)  *)
(* and saves no "best" checkpoint.                                         *)
C16_EmptyValidationNoop == [][C16_Step]_vars

C16_Witness ==
    /\ nVal = 0
    /\ \E r \in Ranks :
           /\ pc[r] = "ckpt"
           /\ Len(trace[r]) > 0
           /\ trace[r][Len(trace[r])].op = "validate"
    /\ \A r \in Ranks : epochsRun[r] > 0

(* C17: every optimizer.step() applies the gradients of exactly            *)
(* grad_accum_steps micro-batches: when a rank is about to step, the       *)
(* backward passes accumulated since the last zero_grad() number           *)
(* grad_accum_steps; the backward passes of a trailing partial window are  *)
(* not part of the first step of the next epoch.                           *)
C17_WindowGradients ==
    \A r \in Ranks :
        pc[r] = "train_step" => grads[r] = config.grad_accum_steps

\* the same for the jobs whose epochs have no trailing partial window
C17_WindowGradientsNoRemainder ==
    (nTrain % config.grad_accum_steps = 0) => C17_WindowGradients

(* C18: when an epoch has fewer than grad_accum_steps batches (zero        *)
(* batches included) the trainer can still be constructed, every           *)
(* train_epoch only increments epoch, and the job completes config.epochs  *)
(* epochs with no optimizer step, tick or change of global_step.           *)
C18_ZeroBatchEpochs ==
    (Fresh /\ config.epochs >= 1 /\ StepsPerEpoch = 0) =>
        /\ \A r \in Ranks :
               /\ pc[r] # "failed"
               /\ optSteps[r] = 0 /\ scheduler[r].last_epoch = 0
               /\ state[r].global_step = 0
               /\ pc[r] = "done" => state[r].epoch = config.epochs
        /\ (\A r \in Ranks : pc[r] = "done") \/ ENABLED JobStep

\* rank r is inside train() of the same job before and after the step
SameJob(r) == pc[r] \notin {"init", "bcast"} /\ pc'[r] # "init"

C19_Step ==
    \A r \in Ranks :
        LET steps == optSteps'[r] - optSteps[r]
            ticks == scheduler'[r].last_epoch - scheduler[r].last_epoch
            incs == state'[r].global_step - state[r].global_step
        IN  /\ SameJob(r) =>
                /\ steps = ticks /\ ticks = incs
                /\ steps \in {0, 1}
                /\ steps = 1 =>
                       /\ pc[r] = "train_step"
                       /\ (batch_idx[r] + 1) % config.grad_accum_steps = 0
            /\ pc'[r] \notin {"init", "failed"} =>
                scheduler'[r].last_epoch
                    <= config.epochs * (nTrain \div config.grad_accum_steps)

(* C19: optimizer.step(), scheduler.step() and global_step += 1 happen     *)
(* together: every step of a rank inside a job changes the three counts by *)
(* the same amount, 0 or 1, and by 1 only at a window boundary             *)
(* ((batch_idx + 1) % W = 0), so the three counts of a job are equal; the  *)
(* ticks of the schedule, those restored from a bundle included, never     *)
(* exceed epochs * floor(B / W).                                           *)
C19_Coupling == [][C19_Step]_vars

C19_Witness ==
    /\ run = 2
    /\ \E r \in Ranks :
           /\ pc[r] = "done"
           /\ loaded[r] # NoState /\ loaded[r].global_step > 0
           /\ state[r].global_step > loaded[r].global_step
           /\ scheduler[r].last_epoch = TotalSteps(config, nTrain)
           /\ optSteps[r] = state[r].global_step

\* the collective, step and tick of n windows, in program order
RECURSIVE WindowEvents(_)
WindowEvents(n) ==
    IF n = 0 THEN <<>>
    ELSE WindowEvents(n - 1) \o <<"all_reduce", "optimizer.step", "scheduler.step">>

\* windows the current train_epoch call of rank r has closed
WindowsClosed(r) == batch_idx[r] \div config.grad_accum_steps

\* global_step of rank r when its job entered train()
StepBase(r) == IF loaded[r] = NoState THEN 0 ELSE loaded[r].global_step

\* what rank r has done, as a function of its position alone
C20_ControlOf(r) ==
    IF pc[r] = "batch"
    THEN [ events |-> WindowEvents(WindowsClosed(r)),
           epoch |-> start_epoch[r] + epochsRun[r],
           global_step |-> StepBase(r) + epochsRun[r] * StepsPerEpoch + WindowsClosed(r) ]
    ELSE IF pc[r] \in {"train_ar", "train_step"}
    THEN [ events |-> Append(WindowEvents(WindowsClosed(r)), "all_reduce"),
           epoch |-> start_epoch[r] + epochsRun[r],
           global_step |-> StepBase(r) + epochsRun[r] * StepsPerEpoch + WindowsClosed(r) ]
    ELSE [ events |-> IF epochsRun[r] = 0 THEN <<>> ELSE WindowEvents(StepsPerEpoch),
           epoch |-> start_epoch[r] + epochsRun[r],
           global_step |-> StepBase(r) + epochsRun[r] * StepsPerEpoch ]

C20_Step ==
    \A r \in Ranks :
        /\ pc'[r] \notin {"init", "bcast", "failed"} =>
              /\ events'[r] = C20_ControlOf(r)'.events
              /\ state'[r].epoch = C20_ControlOf(r)'.epoch
              /\ state'[r].global_step = C20_ControlOf(r)'.global_step
              /\ optSteps'[r] = state'[r].global_step
              /\ scheduler'[r].last_epoch = state'[r].global_step
        /\ (pc[r] = "train_step" /\ pc'[r] # "train_step") =>
              /\ total_loss'[r] = RatZero /\ accum_steps'[r] = 0
              /\ ~IsMain(r) => logged'[r] = logged[r]

(* C20: the training-loss aggregate only feeds the log line.  Whatever the *)
(* losses of the micro-batches are, what a rank has done in train_epoch    *)
(* (its collectives, optimizer steps and ticks, in order) and its          *)
(* (epoch, global_step) are determined by its position in the data alone,  *)
(* so two runs that differ only in loss values do the same; the reduced    *)
(* sum changes nothing but rank 0's log line, and the running sum and the  *)
(* micro-batch counter are 0 again after every window boundary.            *)
C20_LossNonInterference == [][C20_Step]_vars

C20_Witness ==
    /\ \A r \in Ranks : pc[r] = "train_step" /\ Len(events[r]) >= 4
    /\ events[0] = events[1]
    /\ logged[0] # RatDivInt(recvbuf[0], accum_steps[0] * WorldSize)
    /\ logged[0] # RatZero

====
